---- MODULE Spec2Model ----
(***************************************************************************)
(* A model of the OCR batch pipeline of ocr.py: ocr_pdfs_to_text walks an  *)
(* input folder, converts every PDF with process_single_pdf (sequentially  *)
(* or on a ThreadPoolExecutor) and folds the outcomes into a statistics    *)
(* dictionary.  The rasterizer (convert_from_path), the recognition engine *)
(* (pytesseract) and the file system are the environment: what they answer *)
(* for a file is fixed in the description of the input folder.             *)
(*                                                                         *)
(* Text is a sequence of tokens: one-character strings for recognized      *)
(* text, and the literals the code writes (page markers, the no-text       *)
(* notice) as one token each.                                              *)
(***************************************************************************)
EXTENDS Integers, Sequences, FiniteSets, TLC

VARIABLES
    walk,         \* the input folder: its files, in os.walk order
    max_workers,  \* the max_workers argument (None is NoneWorkers)
    fs,           \* the output folder: file name -> content, for the files that exist
    pc,           \* where ocr_pdfs_to_text is
    pdf_files,    \* the discovered paths
    next,         \* the next index of pdf_files to submit (parallel) or to process (sequential)
    yielded,      \* the futures as_completed has handed out
    stats,        \* the statistics dictionary
    task,         \* one call of process_single_pdf per discovered file
    owner,        \* file name -> the task that last opened it for writing (0: none of this run)
    calls,        \* how often each task was submitted, rasterized, recognized, ..., folded
    run,          \* which run of ocr_pdfs_to_text on this input and output folder
    prev          \* the output folder when this run began, and the tasks the run before reported successful

vars == <<walk, max_workers, fs, pc, pdf_files, next, yielded, stats, task,
          owner, calls, run, prev>>

----------------------------------------------------------------------------
(* Bounds of the model *)

\* files in the input folder of a batch
MaxDocs == 2
\* pages of the document of the one-document specification
MaxDocPages == 2
\* runs of ocr_pdfs_to_text on the same folders
MaxRuns == 2

\* files in the input folder of a batch that is larger than the pool
MaxPoolDocs == 3

\* max_workers = None
NoneWorkers == -1

----------------------------------------------------------------------------
(* Text *)

IsSpace(c) == c \in {" ", "\n"}

RECURSIVE LStrip(_)
LStrip(s) == IF s # <<>> /\ IsSpace(Head(s)) THEN LStrip(Tail(s)) ELSE s

RECURSIVE RStrip(_)
RStrip(s) ==
    IF s # <<>> /\ IsSpace(s[Len(s)]) THEN RStrip(SubSeq(s, 1, Len(s) - 1)) ELSE s

\* str.strip()
Strip(s) == RStrip(LStrip(s))

\* f"--- Page {page_num} ---"
Marker(n) == "--- Page " \o ToString(n) \o " ---"

NoText == "[No text extracted]"

\* fault: a page without text is left out
PageEntryOmitsEmpty(page_num, page_text) ==
    IF page_text # <<>>
    THEN <<Marker(page_num), "\n">> \o page_text \o <<"\n">>
    ELSE <<>>

\* the string appended to all_text for one page
PageEntry(page_num, page_text) ==
    IF page_text # <<>>
    THEN <<Marker(page_num), "\n">> \o page_text \o <<"\n">>
    ELSE <<Marker(page_num), "\n", NoText, "\n">>

\* "\n".join(all_text)
RECURSIVE Join(_)
Join(all_text) ==
    IF all_text = <<>> THEN <<>>
    ELSE IF Len(all_text) = 1 THEN all_text[1]
    ELSE all_text[1] \o <<"\n">> \o Join(Tail(all_text))

\* extract_text_from_image: the engine's text stripped, "" when anything raises
extract_text_from_image(image) == IF image.ok THEN Strip(image.text) ELSE <<>>

----------------------------------------------------------------------------
(* Paths *)

\* file.lower()
Lower(ext) == CASE ext = ".PDF" -> ".pdf" [] OTHER -> ext

\* file.lower().endswith('.pdf')
IsPdf(f) == Lower(f.ext) = ".pdf"

\* os.path.join(root, file)
PathStr(f) == f.dir \o "/" \o f.stem \o f.ext

\* os.path.splitext(os.path.basename(pdf_path))[0]
BaseName(f) == f.stem

\* os.path.join(output_dir, f"{base_name}.txt")
OutputFile(f) == "out/" \o BaseName(f) \o ".txt"

----------------------------------------------------------------------------
(* The environment: what rasterization, recognition and the file system    *)
(* answer for a file.                                                      *)

Stems == {"x", "y"}
OutNames == {"out/" \o s \o ".txt" : s \in Stems}

\* what a file that was in the output folder before the first run holds
OldContent == <<"old">>

RasterError == "PDFPageCountError"
OpenError == "PermissionError"
WriteError == "OSError"
HandlerError == "HandlerError"

\* the page images of a document: what recognition answers for each
Page(ok, text) == [ok |-> ok, text |-> text]

\* the pages of the one-document specification
DocPage ==
    {Page(FALSE, <<>>), Page(TRUE, <<>>), Page(TRUE, <<" ">>), Page(TRUE, <<"a">>),
     Page(TRUE, <<" ", "a">>), Page(TRUE, <<"a", "\n">>), Page(TRUE, <<"b">>)}

SeqsUpTo(S, n) == UNION {[1..k -> S] : k \in 0..n}

\* open() and f.write(): succeed, or open raises, or write raises after `flushed` tokens
WriteOk == [kind |-> "ok", flushed |-> 0]
WriteOutcome ==
    {WriteOk, [kind |-> "open_err", flushed |-> 0],
     [kind |-> "write_err", flushed |-> 0], [kind |-> "write_err", flushed |-> 1]}

\* a file of the input folder: its name, and what the environment answers for
\* it: rasterization raises (and the except clause of process_single_pdf
\* raises itself: escapes) or gives `pages`, and open and write end as `wr`
FileOf(stem, ext, raises, escapes, pages, wr) ==
    [stem |-> stem, ext |-> ext, raises |-> raises, escapes |-> escapes,
     pages |-> pages, wr |-> wr]

PdfOf(stem, pages, wr) == FileOf(stem, ".pdf", FALSE, FALSE, pages, wr)

\* PDFs without a page, PDFs whose rasterization raises, a PDF with an
\* upper-case extension and a file that is no PDF
OtherFiles ==
    {PdfOf(s, <<>>, WriteOk) : s \in Stems}
    \cup {FileOf(s, ".pdf", TRUE, e, <<>>, WriteOk) : s \in Stems, e \in BOOLEAN}
    \cup {FileOf("x", ".PDF", FALSE, FALSE, <<Page(TRUE, <<"b", " ", "c", " ">>)>>, WriteOk),
          FileOf("x", ".txt", FALSE, FALSE, <<Page(TRUE, <<"a">>)>>, WriteOk)}

\* the files of a batch: one-page PDFs that are written or whose write raises,
\* and the other files
BatchFiles ==
    {PdfOf(s, <<Page(TRUE, <<"a">>)>>, w) :
        s \in Stems, w \in {WriteOk, [kind |-> "write_err", flushed |-> 0]}}
    \cup OtherFiles

\* the files of the one-document specification: PDFs of up to MaxDocPages
\* pages with every answer of recognition and of the file system, and the
\* other files
DocFiles ==
    {PdfOf(s, p, w) :
        s \in Stems, p \in SeqsUpTo(DocPage, MaxDocPages) \ {<<>>}, w \in WriteOutcome}
    \cup OtherFiles

\* the files of a batch larger than the pool: a PDF of two pages (recognition
\* of the second raises), a PDF of one page and a PDF without a page
PoolFiles ==
    {PdfOf("x", <<Page(TRUE, <<"a">>), Page(FALSE, <<>>)>>, WriteOk),
     PdfOf("y", <<Page(TRUE, <<"b">>)>>, WriteOk),
     PdfOf("y", <<>>, WriteOk)}

\* the file at position k of the walk lies in a directory of its own
InDir(f, k) == [dir |-> "in/d" \o ToString(k)] @@ f

Folders(fileSet, maxDocs) ==
    {[k \in 1..Len(w) |-> InDir(w[k], k)] : w \in SeqsUpTo(fileSet, maxDocs)}

----------------------------------------------------------------------------
(* State *)

NoResult == [kind |-> "none", success |-> FALSE, pdf |-> "", result |-> ""]
\* return success, pdf_path, result
Return(success, pdf, result) ==
    [kind |-> "return", success |-> success, pdf |-> pdf, result |-> result]
\* an exception that leaves process_single_pdf
Raise(msg) == [kind |-> "raise", success |-> FALSE, pdf |-> "", result |-> msg]

IdleTask ==
    [pc |-> "idle", images |-> <<>>, page_num |-> 0, all_text |-> <<>>,
     full_text |-> <<>>, res |-> NoResult]

CallKinds == {"submit", "start", "raster", "recog", "open", "write", "outcome", "fold"}
NoCalls(n) == [k \in CallKinds |-> [i \in 1..n |-> 0]]
Count(c, k, i) == [c EXCEPT ![k][i] = @ + 1]

ZeroStats == [total |-> 0, successful |-> 0, failed |-> 0, errors |-> <<>>]

InitWith(folders, workers) ==
    /\ walk \in folders
    /\ max_workers \in workers
    /\ fs \in {[n \in D |-> OldContent] : D \in SUBSET {"out/x.txt"}}
    /\ pc = "start"
    /\ pdf_files = <<>>
    /\ next = 1
    /\ yielded = {}
    /\ stats = ZeroStats
    /\ task = <<>>
    /\ owner = [n \in OutNames |-> 0]
    /\ calls = NoCalls(0)
    /\ run = 1
    /\ prev = [fs |-> fs, ok |-> {}]

----------------------------------------------------------------------------
(* process_single_pdf, one step at a time.  Task i converts pdf_files[i].    *)

\* fault: no except clause, the exception leaves the call
CaughtNot(f, msg) == Raise(msg)

\* the except clause: log and return the failure (or raise out of the handler)
Caught(f, msg) ==
    IF f.escapes THEN Raise(HandlerError) ELSE Return(FALSE, PathStr(f), msg)

\* the call ends: its locals are gone, its outcome is kept
Finished(res) ==
    [IdleTask EXCEPT !.pc = IF res.kind = "raise" THEN "raised" ELSE "returned",
                     !.res = res]

\* fault: the check looks for the name in the wrong folder
ExistsElsewhere(file) == ("in/" \o file) \in DOMAIN fs

\* os.path.exists(output_file)
Exists(file) == file \in DOMAIN fs

\* open(output_file, 'w'): the file exists and is empty
Truncated(file) == [n \in DOMAIN fs \cup {file} |-> IF n = file THEN <<>> ELSE fs[n]]

\* f.write and the close: `content` lands at offset 0 of the file as it is then
\* (what another writer put beyond it stays)
Written(file, content) ==
    [fs EXCEPT ![file] = content \o SubSeq(@, Len(content) + 1, Len(@))]

\* fault: no skip, every call goes on to rasterize
CheckNoSkip(i) ==
    /\ task[i].pc = "check"
    /\ task' = [task EXCEPT ![i].pc = "raster"]
    /\ UNCHANGED <<walk, max_workers, fs, pc, pdf_files, next, yielded, stats, owner,
                   calls, run, prev>>

\* lines 75-82: the output path, and the skip when it exists
Check(i) ==
    LET f == pdf_files[i] IN
    /\ task[i].pc = "check"
    /\ IF Exists(OutputFile(f))
       THEN /\ task' = [task EXCEPT ![i] = Finished(Return(TRUE, PathStr(f), OutputFile(f)))]
            /\ calls' = Count(calls, "outcome", i)
       ELSE /\ task' = [task EXCEPT ![i].pc = "raster"]
            /\ UNCHANGED calls
    /\ UNCHANGED <<walk, max_workers, fs, pc, pdf_files, next, yielded, stats, owner, run, prev>>

\* fault: a document without images is reported as a success
RasterizeEmptySucceeds(i) ==
    LET f == pdf_files[i] IN
    /\ task[i].pc = "raster"
    /\ IF f.raises
       THEN /\ task' = [task EXCEPT ![i] = Finished(Caught(f, RasterError))]
            /\ calls' = Count(Count(calls, "raster", i), "outcome", i)
       ELSE IF f.pages = <<>>
       THEN /\ task' = [task EXCEPT ![i] =
                            Finished(Return(TRUE, PathStr(f), OutputFile(f)))]
            /\ calls' = Count(Count(calls, "raster", i), "outcome", i)
       ELSE /\ task' = [task EXCEPT ![i].pc = "pages", ![i].images = f.pages,
                                    ![i].page_num = 0, ![i].all_text = <<>>]
            /\ calls' = Count(calls, "raster", i)
    /\ UNCHANGED <<walk, max_workers, fs, pc, pdf_files, next, yielded, stats, owner, run, prev>>

\* fault: an empty list of images goes on to the page loop
RasterizeNoEmptyCheck(i) ==
    LET f == pdf_files[i] IN
    /\ task[i].pc = "raster"
    /\ IF f.raises
       THEN /\ task' = [task EXCEPT ![i] = Finished(Caught(f, RasterError))]
            /\ calls' = Count(Count(calls, "raster", i), "outcome", i)
       ELSE /\ task' = [task EXCEPT ![i].pc = "pages", ![i].images = f.pages,
                                    ![i].page_num = 0, ![i].all_text = <<>>]
            /\ calls' = Count(calls, "raster", i)
    /\ UNCHANGED <<walk, max_workers, fs, pc, pdf_files, next, yielded, stats, owner, run, prev>>

\* lines 86-93: convert_from_path, and the failure when it gives no image
Rasterize(i) ==
    LET f == pdf_files[i] IN
    /\ task[i].pc = "raster"
    /\ IF f.raises
       THEN /\ task' = [task EXCEPT ![i] = Finished(Caught(f, RasterError))]
            /\ calls' = Count(Count(calls, "raster", i), "outcome", i)
       ELSE IF f.pages = <<>>
       THEN /\ task' = [task EXCEPT ![i] =
                            Finished(Return(FALSE, PathStr(f), "No images extracted"))]
            /\ calls' = Count(Count(calls, "raster", i), "outcome", i)
       ELSE /\ task' = [task EXCEPT ![i].pc = "pages", ![i].images = f.pages,
                                    ![i].page_num = 0, ![i].all_text = <<>>]
            /\ calls' = Count(calls, "raster", i)
    /\ UNCHANGED <<walk, max_workers, fs, pc, pdf_files, next, yielded, stats, owner, run, prev>>

\* fault: a page whose recognition raises ends the document as a failure
RecognizePageFatal(i) ==
    LET t == task[i]
        f == pdf_files[i]
        page_num == t.page_num + 1
        page_text == extract_text_from_image(t.images[page_num])
    IN
    /\ t.pc = "pages"
    /\ t.page_num < Len(t.images)
    /\ IF t.images[page_num].ok
       THEN /\ task' = [task EXCEPT ![i].page_num = page_num,
                                    ![i].all_text = Append(@, PageEntry(page_num, page_text))]
            /\ calls' = Count(calls, "recog", i)
       ELSE /\ task' = [task EXCEPT ![i] = Finished(Return(FALSE, PathStr(f), "TesseractError"))]
            /\ calls' = Count(Count(calls, "recog", i), "outcome", i)
    /\ UNCHANGED <<walk, max_workers, fs, pc, pdf_files, next, yielded, stats, owner, run, prev>>

\* lines 98-108: one turn of the page loop
RecognizePage(i) ==
    LET t == task[i]
        page_num == t.page_num + 1
        page_text == extract_text_from_image(t.images[page_num])
    IN
    /\ t.pc = "pages"
    /\ t.page_num < Len(t.images)
    /\ task' = [task EXCEPT ![i].page_num = page_num,
                            ![i].all_text = Append(@, PageEntry(page_num, page_text))]
    /\ calls' = Count(calls, "recog", i)
    /\ UNCHANGED <<walk, max_workers, fs, pc, pdf_files, next, yielded, stats, owner, run, prev>>

\* lines 110-115: join the pages, and the failure when nothing but whitespace is left
Assemble(i) ==
    LET t == task[i]
        f == pdf_files[i]
        full_text == Join(t.all_text)
    IN
    /\ t.pc = "pages"
    /\ t.page_num = Len(t.images)
    /\ IF Strip(full_text) = <<>>
       THEN /\ task' = [task EXCEPT ![i] =
                            Finished(Return(FALSE, PathStr(f), "No text extracted"))]
            /\ calls' = Count(calls, "outcome", i)
       ELSE /\ task' = [task EXCEPT ![i].pc = "open", ![i].full_text = full_text]
            /\ UNCHANGED calls
    /\ UNCHANGED <<walk, max_workers, fs, pc, pdf_files, next, yielded, stats, owner, run, prev>>

\* line 118: open(output_file, 'w')
Open(i) ==
    LET f == pdf_files[i] IN
    /\ task[i].pc = "open"
    /\ IF f.wr.kind = "open_err"
       THEN /\ task' = [task EXCEPT ![i] = Finished(Caught(f, OpenError))]
            /\ calls' = Count(Count(calls, "open", i), "outcome", i)
            /\ UNCHANGED <<fs, owner>>
       ELSE /\ task' = [task EXCEPT ![i].pc = "write"]
            /\ calls' = Count(calls, "open", i)
            /\ fs' = Truncated(OutputFile(f))
            /\ owner' = [owner EXCEPT ![OutputFile(f)] = i]
    /\ UNCHANGED <<walk, max_workers, pc, pdf_files, next, yielded, stats, run, prev>>

\* fault: the worker counts its own success in the shared statistics
WriteCountsItself(i) ==
    LET t == task[i]
        f == pdf_files[i]
    IN
    /\ t.pc = "write"
    /\ IF f.wr.kind = "write_err"
       THEN /\ fs' = Written(OutputFile(f), SubSeq(t.full_text, 1, f.wr.flushed))
            /\ task' = [task EXCEPT ![i] = Finished(Caught(f, WriteError))]
            /\ UNCHANGED stats
       ELSE /\ fs' = Written(OutputFile(f), t.full_text)
            /\ task' = [task EXCEPT ![i] = Finished(Return(TRUE, PathStr(f), OutputFile(f)))]
            /\ stats' = [stats EXCEPT !.successful = @ + 1]
    /\ calls' = Count(Count(calls, "write", i), "outcome", i)
    /\ UNCHANGED <<walk, max_workers, pc, pdf_files, next, yielded, owner, run, prev>>

\* lines 119-122: f.write(full_text), the file closed, and the success
Write(i) ==
    LET t == task[i]
        f == pdf_files[i]
    IN
    /\ t.pc = "write"
    /\ IF f.wr.kind = "write_err"
       THEN /\ fs' = Written(OutputFile(f), SubSeq(t.full_text, 1, f.wr.flushed))
            /\ task' = [task EXCEPT ![i] = Finished(Caught(f, WriteError))]
       ELSE /\ fs' = Written(OutputFile(f), t.full_text)
            /\ task' = [task EXCEPT ![i] = Finished(Return(TRUE, PathStr(f), OutputFile(f)))]
    /\ calls' = Count(Count(calls, "write", i), "outcome", i)
    /\ UNCHANGED <<walk, max_workers, pc, pdf_files, next, yielded, stats, owner, run, prev>>

----------------------------------------------------------------------------
(* ocr_pdfs_to_text *)

\* `max_workers and max_workers > 1`
Parallel(mw) == mw # NoneWorkers /\ mw # 0 /\ mw > 1

\* the tasks inside process_single_pdf
Active == {i \in DOMAIN task : task[i].pc \in {"check", "raster", "pages", "open", "write"}}
Ended(i) == task[i].pc \in {"returned", "raised"}

\* fault: successful is counted for every outcome
FoldResultCountsAll(st, res) ==
    IF res.success
    THEN [st EXCEPT !.successful = @ + 1]
    ELSE [st EXCEPT !.successful = @ + 1,
                    !.failed = @ + 1,
                    !.errors = Append(@, res.pdf \o ": " \o res.result)]

\* lines 185-192 and 201-208: one returned outcome folded into the statistics
FoldResult(st, res) ==
    IF res.success
    THEN [st EXCEPT !.successful = @ + 1]
    ELSE [st EXCEPT !.failed = @ + 1,
                    !.errors = Append(@, res.pdf \o ": " \o res.result)]

\* fault: the exception is counted and not listed
FoldExceptionNoEntry(st, pdf_path, msg) == [st EXCEPT !.failed = @ + 1]

\* lines 193-196: the exception future.result() raised
FoldException(st, pdf_path, msg) ==
    [st EXCEPT !.failed = @ + 1, !.errors = Append(@, pdf_path \o ": " \o msg)]

\* lines 146-172: the output folder, the walk, the empty return, the statistics
Start ==
    LET found == SelectSeq(walk, IsPdf)
        n == Len(found)
    IN
    /\ pc = "start"
    /\ pdf_files' = found
    /\ task' = [i \in 1..n |-> IdleTask]
    /\ calls' = NoCalls(n)
    /\ next' = 1
    /\ yielded' = {}
    /\ IF n = 0
       THEN /\ stats' = ZeroStats
            /\ pc' = "done"
       ELSE /\ stats' = [ZeroStats EXCEPT !.total = n]
            /\ pc' = IF Parallel(max_workers) THEN "submit" ELSE "loop"
    /\ UNCHANGED <<walk, max_workers, fs, owner, run, prev>>

\* lines 176-179: executor.submit for the next path
Submit ==
    /\ pc = "submit"
    /\ task' = [task EXCEPT ![next].pc = "queued"]
    /\ calls' = Count(calls, "submit", next)
    /\ next' = next + 1
    /\ pc' = IF next = Len(pdf_files) THEN "collect" ELSE "submit"
    /\ UNCHANGED <<walk, max_workers, fs, pdf_files, yielded, stats, owner, run, prev>>

\* fault: every queued task gets a thread at once
WorkerStartUnbounded(i) ==
    /\ task[i].pc = "queued"
    /\ task' = [task EXCEPT ![i].pc = "check"]
    /\ calls' = Count(calls, "start", i)
    /\ UNCHANGED <<walk, max_workers, fs, pc, pdf_files, next, yielded, stats, owner, run, prev>>

\* a pool thread takes the oldest queued task, when fewer than max_workers run
WorkerStart(i) ==
    /\ task[i].pc = "queued"
    /\ \A j \in DOMAIN task : task[j].pc = "queued" => i <= j
    /\ Cardinality(Active) < max_workers
    /\ task' = [task EXCEPT ![i].pc = "check"]
    /\ calls' = Count(calls, "start", i)
    /\ UNCHANGED <<walk, max_workers, fs, pc, pdf_files, next, yielded, stats, owner, run, prev>>

\* fault: future.result() is called outside the try, the exception leaves the loop
CollectPropagates(i) ==
    /\ pc = "collect"
    /\ Ended(i)
    /\ i \notin yielded
    /\ yielded' = yielded \cup {i}
    /\ IF task[i].res.kind = "raise"
       THEN /\ pc' = "raised"
            /\ UNCHANGED <<stats, calls>>
       ELSE /\ stats' = FoldResult(stats, task[i].res)
            /\ calls' = Count(calls, "fold", i)
            /\ pc' = IF yielded' = DOMAIN task THEN "summary" ELSE "collect"
    /\ UNCHANGED <<walk, max_workers, fs, pdf_files, next, task, owner, run, prev>>

\* fault: a future is handed out again after it was folded
CollectAgain(i) ==
    /\ pc = "collect"
    /\ Ended(i)
    /\ yielded' = yielded \cup {i}
    /\ stats' = IF task[i].res.kind = "raise"
                THEN FoldException(stats, PathStr(pdf_files[i]), task[i].res.result)
                ELSE FoldResult(stats, task[i].res)
    /\ calls' = Count(calls, "fold", i)
    /\ pc' = "collect"
    /\ UNCHANGED <<walk, max_workers, fs, pdf_files, next, task, owner, run, prev>>

\* lines 182-196: as_completed hands out a finished future once, its outcome is folded
Collect(i) ==
    /\ pc = "collect"
    /\ Ended(i)
    /\ i \notin yielded
    /\ yielded' = yielded \cup {i}
    /\ stats' = IF task[i].res.kind = "raise"
                THEN FoldException(stats, PathStr(pdf_files[i]), task[i].res.result)
                ELSE FoldResult(stats, task[i].res)
    /\ calls' = Count(calls, "fold", i)
    /\ pc' = IF yielded' = DOMAIN task THEN "summary" ELSE "collect"
    /\ UNCHANGED <<walk, max_workers, fs, pdf_files, next, task, owner, run, prev>>

\* fault: the loop starts a path without waiting for the one before it
SeqCallAhead ==
    /\ pc = "loop"
    /\ \E k \in DOMAIN task :
          /\ task[k].pc = "idle"
          /\ task' = [task EXCEPT ![k].pc = "check"]
          /\ calls' = Count(Count(calls, "submit", k), "start", k)
    /\ UNCHANGED <<walk, max_workers, fs, pc, pdf_files, next, yielded, stats, owner, run, prev>>

\* line 201: the sequential loop calls process_single_pdf for the next path
SeqCall ==
    /\ pc = "loop"
    /\ task[next].pc = "idle"
    /\ task' = [task EXCEPT ![next].pc = "check"]
    /\ calls' = Count(Count(calls, "submit", next), "start", next)
    /\ UNCHANGED <<walk, max_workers, fs, pc, pdf_files, next, yielded, stats, owner, run, prev>>

\* lines 201-208: the call returned and its outcome is folded; an exception
\* that left process_single_pdf leaves ocr_pdfs_to_text as well
SeqFold ==
    /\ pc = "loop"
    /\ Ended(next)
    /\ IF task[next].res.kind = "raise"
       THEN /\ pc' = "raised"
            /\ UNCHANGED <<stats, calls, next>>
       ELSE /\ stats' = FoldResult(stats, task[next].res)
            /\ calls' = Count(calls, "fold", next)
            /\ next' = next + 1
            /\ pc' = IF next = Len(pdf_files) THEN "summary" ELSE "loop"
    /\ UNCHANGED <<walk, max_workers, fs, pdf_files, yielded, task, owner, run, prev>>

\* lines 210-222: the summary is logged and the statistics returned
Summary ==
    /\ pc = "summary"
    /\ pc' = "done"
    /\ UNCHANGED <<walk, max_workers, fs, pdf_files, next, yielded, stats, task, owner,
                   calls, run, prev>>

\* ocr_pdfs_to_text is called again with the same folders
Rerun ==
    /\ pc \in {"done", "raised"}
    /\ run < MaxRuns
    /\ run' = run + 1
    /\ prev' = [fs |-> fs,
                ok |-> {i \in DOMAIN task : task[i].res.kind = "return" /\ task[i].res.success}]
    /\ pc' = "start"
    /\ pdf_files' = <<>>
    /\ next' = 1
    /\ yielded' = {}
    /\ stats' = ZeroStats
    /\ task' = <<>>
    /\ owner' = [n \in OutNames |-> 0]
    /\ calls' = NoCalls(0)
    /\ UNCHANGED <<walk, max_workers, fs>>

Next ==
    \/ Start
    \/ Submit
    \/ SeqCall
    \/ SeqFold
    \/ Summary
    \/ \E i \in DOMAIN task : WorkerStart(i)
    \/ \E i \in DOMAIN task : Collect(i)
    \/ \E i \in DOMAIN task : Check(i)
    \/ \E i \in DOMAIN task : Rasterize(i)
    \/ \E i \in DOMAIN task : RecognizePage(i)
    \/ \E i \in DOMAIN task : Assemble(i)
    \/ \E i \in DOMAIN task : Open(i)
    \/ \E i \in DOMAIN task : Write(i)

----------------------------------------------------------------------------
(* process_single_pdf and the sequential loop as functions of the output   *)
(* folder: what a call that runs alone, from check to return, does.        *)

\* lines 95-111: all_text after the page loop
RECURSIVE AllText(_, _)
AllText(images, n) ==
    IF n = 0 THEN <<>>
    ELSE Append(AllText(images, n - 1), PageEntry(n, extract_text_from_image(images[n])))

\* process_single_pdf(pdf_path, output_dir) on the folder `files`
Convert(f, files) ==
    LET out == OutputFile(f)
        full_text == Join(AllText(f.pages, Len(f.pages)))
        opened == [n \in DOMAIN files \cup {out} |-> IF n = out THEN <<>> ELSE files[n]]
    IN
    IF out \in DOMAIN files
    THEN [res |-> Return(TRUE, PathStr(f), out), fs |-> files]
    ELSE IF f.raises
    THEN [res |-> Caught(f, RasterError), fs |-> files]
    ELSE IF f.pages = <<>>
    THEN [res |-> Return(FALSE, PathStr(f), "No images extracted"), fs |-> files]
    ELSE IF Strip(full_text) = <<>>
    THEN [res |-> Return(FALSE, PathStr(f), "No text extracted"), fs |-> files]
    ELSE IF f.wr.kind = "open_err"
    THEN [res |-> Caught(f, OpenError), fs |-> files]
    ELSE IF f.wr.kind = "write_err"
    THEN [res |-> Caught(f, WriteError),
          fs |-> [opened EXCEPT ![out] = SubSeq(full_text, 1, f.wr.flushed)]]
    ELSE [res |-> Return(TRUE, PathStr(f), out), fs |-> [opened EXCEPT ![out] = full_text]]

\* lines 198-208: the sequential loop over `paths`, from statistics `st` and
\* folder `files`; raised when an exception left process_single_pdf
RECURSIVE SeqLoop(_, _, _)
SeqLoop(paths, st, files) ==
    IF paths = <<>> THEN [stats |-> st, fs |-> files, raised |-> FALSE]
    ELSE LET c == Convert(Head(paths), files) IN
         IF c.res.kind = "raise"
         THEN [stats |-> st, fs |-> c.fs, raised |-> TRUE]
         ELSE SeqLoop(Tail(paths), FoldResult(st, c.res), c.fs)

\* ocr_pdfs_to_text with max_workers unset, on the input folder `w`
SeqRun(w, files) ==
    LET found == SelectSeq(w, IsPdf) IN
    SeqLoop(found, [ZeroStats EXCEPT !.total = Len(found)], files)

Workers == {NoneWorkers, 0, 1, 2, 4}

\* one run over a folder of up to MaxDocs files
Init == InitWith(Folders(BatchFiles, MaxDocs), Workers)
Spec == Init /\ [][Next]_vars

\* one run over a folder of one document of up to MaxDocPages pages
InitDoc == InitWith(Folders(DocFiles, 1), Workers)
SpecDoc == InitDoc /\ [][Next]_vars

\* one run over a folder of up to MaxPoolDocs files, sequentially or on a
\* pool of two threads
InitPool == InitWith(Folders(PoolFiles, MaxPoolDocs), {1, 2})
SpecPool == InitPool /\ [][Next]_vars

\* the thread that called ocr_pdfs_to_text
MainThread ==
    \/ Start
    \/ Submit
    \/ SeqCall
    \/ SeqFold
    \/ Summary
    \/ \E i \in DOMAIN task : Collect(i)

\* the steps of call i of process_single_pdf, and the pool thread taking it
Call(i) ==
    /\ i \in DOMAIN task
    /\ \/ WorkerStart(i)
       \/ Check(i)
       \/ Rasterize(i)
       \/ RecognizePage(i)
       \/ Assemble(i)
       \/ Open(i)
       \/ Write(i)

\* every thread that can take a step takes one in the end: the main thread,
\* and each call, whose rasterization, recognition and file operations all
\* return or raise
Fairness == WF_vars(MainThread) /\ \A i \in 1..MaxDocs : WF_vars(Call(i))
FairSpec == Init /\ [][Next]_vars /\ Fairness

\* MaxRuns runs, one after the other, over the same folders
InitTwice == InitWith(Folders(BatchFiles, MaxDocs), {1, 2})
NextTwice == Next \/ Rerun
SpecTwice == InitTwice /\ [][NextTwice]_vars

----------------------------------------------------------------------------
(* Properties *)

Tasks == DOMAIN task
InFolder(file) == file \in DOMAIN fs
File(i) == pdf_files[i]
Failed(i) == Ended(i) /\ ~task[i].res.success
Succeeded(i) == Ended(i) /\ task[i].res.success
Occurrences(e, s) == Cardinality({k \in DOMAIN s : s[k] = e})
SameBag(s, t) ==
    /\ Len(s) = Len(t)
    /\ \A k \in DOMAIN s : Occurrences(s[k], s) = Occurrences(s[k], t)

\* C1: when ocr_pdfs_to_text returns, in either mode and whatever the outcomes,
\* successful + failed = total = the number of discovered PDFs, and errors has
\* one entry per failed document.
Completeness ==
    pc = "done" =>
        /\ stats.total = Len(SelectSeq(walk, IsPdf))
        /\ stats.successful + stats.failed = stats.total
        /\ Len(stats.errors) = stats.failed

\* a parallel run returned after a worker exception in one call and a success in another
CompletenessWitness ==
    /\ pc = "done"
    /\ Parallel(max_workers)
    /\ \E i, j \in Tasks : task[i].res.kind = "raise" /\ Succeeded(j)

\* C3: a run that returns leaves the statistics (errors as a multiset) and the
\* files that the sequential run of the same folders leaves, in every mode
\* and for every interleaving of the workers.
ConcurrencyEquivalence ==
    LET s == SeqRun(walk, prev.fs) IN
    (pc = "done" /\ ~s.raised) =>
        /\ stats.total = s.stats.total
        /\ stats.successful = s.stats.successful
        /\ stats.failed = s.stats.failed
        /\ SameBag(stats.errors, s.stats.errors)
        /\ fs = s.fs

AllPagesEmpty(f) ==
    /\ ~f.raises
    /\ f.pages # <<>>
    /\ \A k \in DOMAIN f.pages : extract_text_from_image(f.pages[k]) = <<>>

\* C4: a document that rasterizes to at least one page and whose pages all
\* recognize to empty text ends in the failure "No text extracted" and no
\* output file was opened for it.
EmptyResultFails ==
    \A i \in Tasks :
        (calls["raster"][i] = 1 /\ AllPagesEmpty(File(i))) =>
            /\ task[i].pc \notin {"open", "write"}
            /\ calls["open"][i] = 0
            /\ Ended(i) => task[i].res = Return(FALSE, PathStr(File(i)), "No text extracted")

\* C5: no file that a conversion opened for writing is left in the output
\* folder when that conversion reported a failure.
NoPartialArtifacts ==
    \A i \in Tasks :
        Failed(i) =>
            ~(InFolder(OutputFile(File(i))) /\ owner[OutputFile(File(i))] = i)

Skipped(i) == task[i].res = Return(TRUE, PathStr(File(i)), OutputFile(File(i)))
Untouched(i) == \A k \in {"raster", "recog", "open", "write"} : calls[k][i] = 0

\* C2: in a second run on the same folders every document the first run
\* reported successful takes the skip path: it is not rasterized, recognized
\* or written again, its file keeps its content, and when the second run
\* returns the output folder holds the files the first run left.
Idempotence ==
    run > 1 =>
        /\ \A i \in prev.ok \cap Tasks :
              /\ Untouched(i)
              /\ Ended(i) => Skipped(i)
              /\ InFolder(OutputFile(File(i)))
              /\ fs[OutputFile(File(i))] = prev.fs[OutputFile(File(i))]
        /\ pc = "done" => (prev.ok \subseteq Tasks /\ DOMAIN fs = DOMAIN prev.fs)

\* the second run returned, and skipped a document whose file the first run wrote
IdempotenceWitness ==
    /\ run = 2
    /\ pc = "done"
    /\ \E i \in prev.ok :
          /\ Skipped(i)
          /\ calls["outcome"][i] = 1
          /\ prev.fs[OutputFile(File(i))] # OldContent

RasterRaised(i) == calls["raster"][i] = 1 /\ File(i).raises /\ ~File(i).escapes

\* C6: a document whose rasterization raises ends as a failure carrying the
\* error, the sequential loop goes on after it, and when the run returns
\* every other document that succeeds when converted alone has succeeded
\* and its file exists.
Isolation ==
    /\ pc = "raised" => \E i \in Tasks : File(i).escapes
    /\ \A i \in Tasks :
          RasterRaised(i) =>
              /\ Ended(i) =>
                    task[i].res = Return(FALSE, PathStr(File(i)), RasterError)
              /\ pc = "done" =>
                    /\ Occurrences(PathStr(File(i)) \o ": " \o RasterError, stats.errors) = 1
                    /\ \A j \in Tasks \ {i} :
                          Convert(File(j), prev.fs).res.success =>
                              Succeeded(j) /\ InFolder(OutputFile(File(j)))

\* a run returned after a rasterization error, having written another document's file
IsolationWitness ==
    /\ pc = "done"
    /\ \E i, j \in Tasks :
          /\ RasterRaised(i)
          /\ j > i
          /\ Succeeded(j)
          /\ calls["write"][j] = 1
          /\ File(j).stem # File(i).stem

IsMarker(tok) == \E n \in 1..(MaxDocPages + 2) : tok = Marker(n)
Markers(content) == SelectSeq(content, IsMarker)
EntryAt(content, pos, n, text) ==
    /\ pos + 3 <= Len(content)
    /\ content[pos] = Marker(n)
    /\ content[pos + 1] = "\n"
    /\ IF text = <<>>
       THEN content[pos + 2] = NoText /\ content[pos + 3] = "\n"
       ELSE SubSeq(content, pos + 2, pos + 1 + Len(text)) = text
Wrote(i) ==
    /\ Succeeded(i)
    /\ calls["write"][i] = 1
    /\ owner[OutputFile(File(i))] = i

\* C7: the file a conversion of an N-page document wrote holds the markers
\* of pages 1 to N, each once and in this order, and the entry of a page
\* without text is its marker followed by the no-text notice.
PageOrder ==
    \A i \in Tasks :
        Wrote(i) =>
            LET content == fs[OutputFile(File(i))]
                pages == File(i).pages
            IN
            /\ Markers(content) = [n \in 1..Len(pages) |-> Marker(n)]
            /\ \A n \in 1..Len(pages) :
                  \E pos \in 1..Len(content) :
                      EntryAt(content, pos, n, extract_text_from_image(pages[n]))

\* a written file of two pages, the first without text and the second with text
PageOrderWitness ==
    \E i \in Tasks :
        /\ Wrote(i)
        /\ Len(File(i).pages) = 2
        /\ extract_text_from_image(File(i).pages[1]) = <<>>
        /\ extract_text_from_image(File(i).pages[2]) # <<>>

SkipStep(i) ==
    /\ i \in DOMAIN task'
    /\ task[i].pc = "check"
    /\ task'[i].pc # "check"
    /\ InFolder(OutputFile(File(i)))

\* C8: a call that finds its output file at the check returns success with
\* that path in the same step, leaves every file as it is, and has not
\* rasterized, recognized, opened or written anything.
SkipDoesNoWork ==
    [][\A i \in Tasks :
          SkipStep(i) =>
              /\ task'[i] = Finished(Return(TRUE, PathStr(File(i)), OutputFile(File(i))))
              /\ fs' = fs
              /\ \A k \in {"raster", "recog", "open", "write"} : calls'[k][i] = 0]_vars

\* a call has returned by the skip path, the file still holding what it held before the run
SkipWitness ==
    \E i \in Tasks :
        /\ Ended(i)
        /\ Skipped(i)
        /\ Untouched(i)
        /\ fs[OutputFile(File(i))] = OldContent

\* C9: in parallel mode no path is submitted, started, finished or folded
\* more than once, a path is folded only after its call has ended, and when
\* the run returns each path was submitted, finished and folded exactly once.
ExactlyOnce ==
    Parallel(max_workers) =>
        \A i \in Tasks :
            /\ \A k \in {"submit", "start", "outcome", "fold"} : calls[k][i] <= 1
            /\ calls["fold"][i] <= calls["outcome"][i]
            /\ calls["outcome"][i] <= calls["start"][i]
            /\ calls["start"][i] <= calls["submit"][i]
            /\ pc = "done" =>
                  \A k \in {"submit", "start", "outcome", "fold"} : calls[k][i] = 1

\* a parallel run of two documents returned, the second folded before the first
ExactlyOnceWitness ==
    /\ pc = "done"
    /\ Parallel(max_workers)
    /\ Len(pdf_files) = 2
    /\ Len(stats.errors) = 2
    /\ stats.errors[1] = PathStr(File(2)) \o ": " \o "No images extracted"

FoldedNow(i) == i \in DOMAIN task' /\ calls'["fold"][i] = calls["fold"][i] + 1
Reason(i) == task[i].res.result

\* C10: the statistics change only when an outcome is folded; a success (skip
\* included) adds 1 to successful and nothing else, a failure adds 1 to
\* failed and appends the entry of its document and reason and nothing
\* else; total does not change after discovery.
StatisticsFold ==
    [][(pc # "start" /\ pc' # "start") =>
          /\ stats'.total = stats.total
          /\ stats' # stats => \E i \in Tasks : FoldedNow(i)
          /\ \A i \in Tasks :
                FoldedNow(i) =>
                    IF task[i].res.kind = "return" /\ task[i].res.success
                    THEN stats' = [stats EXCEPT !.successful = @ + 1]
                    ELSE stats' = [stats EXCEPT
                                      !.failed = @ + 1,
                                      !.errors = Append(@, PathStr(File(i)) \o ": " \o Reason(i))]]_vars

\* a run returned having folded a skip and a failure
StatisticsFoldWitness ==
    /\ pc = "done"
    /\ stats.successful = 1
    /\ stats.failed = 1
    /\ \E i \in Tasks : Skipped(i) /\ Untouched(i)


WorkerRaised(i) == task[i].res.kind = "raise"
ErrorEntry(i) == PathStr(File(i)) \o ": " \o Reason(i)

\* C11: in parallel mode an exception that left a worker's call never leaves
\* ocr_pdfs_to_text and reaches no other call (only a call whose own
\* document raised has ended by an exception); once collected it is one
\* errors entry of that document with the exception's message, and when the
\* run returns failed counts that document once, beside the returned failures.
WorkerFailureContainment ==
    Parallel(max_workers) =>
        /\ pc # "raised"
        /\ \A i \in Tasks :
              WorkerRaised(i) =>
                  /\ File(i).escapes
                  /\ Reason(i) = HandlerError
                  /\ Occurrences(ErrorEntry(i), stats.errors) =
                        (IF i \in yielded THEN 1 ELSE 0)
                  /\ \A j \in Tasks \ {i} :
                        (Ended(j) /\ ~File(j).escapes) => task[j].res.kind = "return"
        /\ pc = "done" =>
              /\ yielded = Tasks
              /\ stats.failed = Cardinality({i \in Tasks : Failed(i)})
              /\ stats.successful = Cardinality({i \in Tasks : Succeeded(i)})

\* a parallel run returned: one call ended by an exception and was folded
\* first, the other call, started before it, wrote its file
WorkerFailureWitness ==
    /\ pc = "done"
    /\ Parallel(max_workers)
    /\ \E i, j \in Tasks :
          /\ WorkerRaised(i)
          /\ j < i
          /\ Wrote(j)
          /\ stats.errors = <<ErrorEntry(i)>>
          /\ stats.successful = 1


WorkerStep(i) ==
    /\ i \in DOMAIN task'
    /\ task[i].pc \in {"queued", "check", "raster", "pages", "open", "write"}
    /\ task'[i] # task[i]

\* C13: in parallel mode no step of a worker changes the statistics; they
\* change only in the collecting loop, one collected outcome at a time, and
\* after every step successful + failed is the number of outcomes
\* collected and errors has one entry per failure.
NoLostUpdates ==
    [][Parallel(max_workers) =>
          /\ \A i \in Tasks : WorkerStep(i) => stats' = stats
          /\ (pc # "start" /\ stats' # stats) =>
                /\ pc = "collect"
                /\ \E i \in Tasks \ yielded : yielded' = yielded \cup {i}
          /\ stats'.successful + stats'.failed = Cardinality(yielded')
          /\ Len(stats'.errors) = stats'.failed]_vars

\* one outcome is folded, a success, while another worker is writing its file
NoLostUpdatesWitness ==
    /\ Parallel(max_workers)
    /\ pc = "collect"
    /\ stats.successful = 1
    /\ stats.failed = 0
    /\ \E i \in yielded, j \in Tasks \ yielded : Wrote(i) /\ task[j].pc = "write"


Started(i) == task[i].pc # "idle"

Recognized(i) == i \in DOMAIN task' /\ calls'["recog"][i] # calls["recog"][i]

\* C15: with max_workers = k > 1 at most k documents are inside
\* process_single_pdf after every step; a document is taken by a pool
\* thread once, and each recognition is a step of that one call: it
\* recognizes the page after the last page recognized and appends that
\* page's entry.
BoundedParallelism ==
    [][Parallel(max_workers) =>
          /\ Cardinality(Active') <= max_workers
          /\ \A i \in Tasks :
                Recognized(i) =>
                    /\ task[i].pc = "pages"
                    /\ calls["start"][i] = 1
                    /\ calls'["start"][i] = 1
                    /\ calls'["recog"][i] = calls["recog"][i] + 1
                    /\ task'[i].page_num = task[i].page_num + 1
                    /\ task'[i].page_num = calls'["recog"][i]
                    /\ task'[i].all_text =
                          Append(task[i].all_text,
                                 PageEntry(task'[i].page_num,
                                           extract_text_from_image(
                                               File(i).pages[task'[i].page_num])))]_vars

\* three documents on a pool of two threads: two are being converted, one
\* of them past its first page of two, and the third waits in the queue
BoundedParallelismWitness ==
    /\ max_workers = 2
    /\ Len(pdf_files) = 3
    /\ Cardinality(Active) = 2
    /\ task[3].pc = "queued"
    /\ \E i \in Active : task[i].page_num = 1 /\ Len(task[i].images) = 2


NoImages(i) == calls["raster"][i] = 1 /\ ~File(i).raises /\ File(i).pages = <<>>
RasterFailed(i) == calls["raster"][i] = 1 /\ (File(i).raises \/ File(i).pages = <<>>)

\* C16: a call that reached rasterization (its output file was absent at the
\* check) and got no image has returned the failure "No images extracted";
\* one whose rasterization raised has returned the failure with the
\* error's message (when its except clause completed); in both cases the
\* call has recognized no page, has not opened or written a file, and its
\* output file is absent unless another call created it.
RasterizationFailure ==
    \A i \in Tasks :
        RasterFailed(i) =>
            /\ Ended(i)
            /\ NoImages(i) =>
                  task[i].res = Return(FALSE, PathStr(File(i)), "No images extracted")
            /\ RasterRaised(i) =>
                  task[i].res = Return(FALSE, PathStr(File(i)), RasterError)
            /\ \A k \in {"recog", "open", "write"} : calls[k][i] = 0
            /\ owner[OutputFile(File(i))] # i
            /\ owner[OutputFile(File(i))] = 0 => ~InFolder(OutputFile(File(i)))

\* a run returned: one document gave no image, the rasterization of another
\* raised, and the output folder is empty
RasterizationFailureWitness ==
    /\ pc = "done"
    /\ DOMAIN fs = {}
    /\ stats.failed = 2
    /\ \E i, j \in Tasks : NoImages(i) /\ RasterRaised(j)


RecognitionRaises(i, n) == n \in DOMAIN File(i).pages /\ ~File(i).pages[n].ok
SomePageHasText(i) ==
    \E n \in DOMAIN File(i).pages : extract_text_from_image(File(i).pages[n]) # <<>>
PastPages(i) == calls["raster"][i] = 1 /\ task[i].pc \in {"open", "write", "returned", "raised"}

\* C17: for a page whose recognition raises, extract_text_from_image gives
\* the empty text; the call goes on: the page's entry in all_text is its
\* marker and the no-text notice, every page of the document is recognized
\* before the call leaves the page loop, and when another page has text
\* and open and write succeed the call returns success and the file holds
\* the entry of every page.
RecognitionFailureNotFatal ==
    \A i \in Tasks :
        \A n \in DOMAIN File(i).pages :
            RecognitionRaises(i, n) =>
                /\ extract_text_from_image(File(i).pages[n]) = <<>>
                /\ (task[i].pc = "pages" /\ task[i].page_num >= n) =>
                      task[i].all_text[n] = <<Marker(n), "\n", NoText, "\n">>
                /\ PastPages(i) => calls["recog"][i] = Len(File(i).pages)
                /\ (PastPages(i) /\ Ended(i) /\ SomePageHasText(i) /\ File(i).wr = WriteOk) =>
                      /\ Wrote(i)
                      /\ fs[OutputFile(File(i))] = Join(AllText(File(i).pages, Len(File(i).pages)))
                      /\ \E pos \in 1..Len(fs[OutputFile(File(i))]) :
                            EntryAt(fs[OutputFile(File(i))], pos, n, <<>>)

\* a document of two pages was written: recognition of the first page
\* raised, the second page has text
RecognitionFailureWitness ==
    \E i \in Tasks :
        /\ RecognitionRaises(i, 1)
        /\ Len(File(i).pages) = 2
        /\ File(i).pages[2].ok
        /\ SomePageHasText(i)
        /\ Wrote(i)
        /\ pc = "done"
        /\ stats.successful = 1


\* the pages whose images call i holds
HeldImages(i) == DOMAIN task[i].images

\* C18: at every point of a conversion the images it holds are of at most
\* one page, the page being recognized (the one after the last page
\* recognized).
OnePageImageAtATime ==
    \A i \in Tasks :
        /\ Cardinality(HeldImages(i)) <= 1
        /\ \A n \in HeldImages(i) : n = task[i].page_num + 1


\* the calls of this run that opened `file` for writing
Writers(file) ==
    {i \in Tasks : /\ OutputFile(File(i)) = file
                   /\ calls["open"][i] = 1
                   /\ File(i).wr.kind # "open_err"}

\* C19: in one run, sequential or parallel, each file of the output folder
\* is opened for writing by at most one call of process_single_pdf, also
\* when two discovered PDFs have the same base name.
SingleWriter == \A file \in OutNames : Cardinality(Writers(file)) <= 1


Artifact(i) == OutputFile(File(i))

\* C20: a call that returned success has its file <base name>.txt in the
\* output folder from then on; when the run returns, successful counts the
\* calls that succeeded and failed the others, and every document whose
\* file is absent has failed and has its entry in errors.
ArtifactsMatchStatistics ==
    /\ \A i \in Tasks : Succeeded(i) => InFolder(Artifact(i))
    /\ pc = "done" =>
          /\ stats.successful = Cardinality({i \in Tasks : Succeeded(i)})
          /\ stats.failed = Cardinality({i \in Tasks : Failed(i)})
          /\ \A i \in Tasks :
                ~InFolder(Artifact(i)) =>
                    /\ Failed(i)
                    /\ Occurrences(ErrorEntry(i), stats.errors) = 1

\* a run returned: one document was written and is counted successful, the
\* other has no file and is counted failed with its entry
ArtifactsWitness ==
    /\ pc = "done"
    /\ stats.successful = 1
    /\ stats.failed = 1
    /\ \E i, j \in Tasks :
          /\ Wrote(i)
          /\ InFolder(Artifact(i))
          /\ ~InFolder(Artifact(j))
          /\ stats.errors = <<ErrorEntry(j)>>

====
